---- MODULE Spec2Model ----
(***************************************************************************)
(* Model of scripts/download_models.py: the selection of models from the   *)
(* catalog (main), the per-model retry wrapper (download_with_retry) and    *)
(* the per-file fetch with commit by rename (download).                     *)
(***************************************************************************)
EXTENDS Integers, Sequences, FiniteSets, TLC

\* ------------------------------------------------------------------ bounds

\* Largest value of --retry-attempts the runs are started with (0..MaxRetry).
MaxRetry == 2

\* Number of chunks resp.content.iter_chunks() yields for one response body.
NChunks == 2

\* Number of invocations of the script against the same destination.
MaxRuns == 2

\* ----------------------------------------------------------------- catalog
\* ai_diffusion.resources: Arch, ResourceKind and the model lists.  A path is
\* <<directory, stem, suffix>>; a name is the rank of the display name in
\* string order (sorted(models, key=lambda m: m.name) compares names).

Arch == {"all", "sd15", "sdxl", "flux", "illu", "illu_v"}

ResourceKind == {"checkpoint", "upscaler", "controlnet", "ip_adapter", "clip_vision", "preprocessor", "lora"}

File(dir, stem, suffix) == <<dir, stem, suffix>>

ModelResource(identifier, name, arch, kind, files) ==
    [id |-> [kind |-> kind, arch |-> arch, identifier |-> identifier],
     name |-> name, arch |-> arch, kind |-> kind, files |-> files]

required_models ==
    { ModelResource("clip_vision", 3, "all", "clip_vision", <<File("clip_vision", "clip-vision_vit-h", "safetensors")>>),
      ModelResource("nmkd", 14, "all", "upscaler", <<File("upscale_models", "4x_NMKD-Superscale", "pth")>>),
      ModelResource("inpaint", 5, "sd15", "controlnet", <<File("controlnet", "control_v11p_sd15_inpaint", "safetensors")>>),
      ModelResource("ip_adapter", 10, "sd15", "ip_adapter", <<File("ipadapter", "ip-adapter_sd15", "safetensors")>>),
      ModelResource("ip_adapter", 11, "sdxl", "ip_adapter", <<File("ipadapter", "ip-adapter_sdxl_vit-h", "safetensors")>>),
      ModelResource("inpaint", 6, "sdxl", "lora", <<File("inpaint", "fooocus_inpaint_head", "pth"),
                                                    File("inpaint", "inpaint_v26.fooocus", "patch")>>),
      ModelResource("t5", 18, "flux", "lora", <<File("clip", "t5-v1_1-xxl", "gguf")>>),
      ModelResource("ip_adapter", 12, "illu", "ip_adapter", <<File("ipadapter", "noobIPAMARK1", "safetensors")>>),
      ModelResource("inpaint", 7, "illu_v", "controlnet", <<File("controlnet", "noob-inpaint-vpred", "safetensors")>>) }

default_checkpoints ==
    << ModelResource("realistic_vision", 15, "sd15", "checkpoint", <<File("checkpoints", "realisticVision", "safetensors")>>),
       ModelResource("dreamshaper", 4, "sd15", "checkpoint", <<File("checkpoints", "dreamshaper_8", "safetensors")>>),
       ModelResource("zavychroma", 22, "sdxl", "checkpoint", <<File("checkpoints", "zavychromaxl", "safetensors"),
                                                                 File("checkpoints", "zavychromaxl", "yaml")>>),
       ModelResource("flux_schnell", 9, "flux", "checkpoint", <<File("checkpoints", "flux1-schnell", "safetensors")>>),
       ModelResource("noobai", 13, "illu", "checkpoint", <<File("checkpoints", "noobai-xl", "safetensors")>>) >>

optional_models ==
    { ModelResource("scribble", 16, "sd15", "controlnet", <<File("controlnet", "control_lora_rank128_v11p_sd15_scribble", "safetensors")>>),
      ModelResource("scribble", 17, "sdxl", "controlnet", <<File("controlnet", "xinsirscribble", "safetensors")>>),
      ModelResource("universal", 19, "flux", "controlnet", <<File("controlnet", "FLUX.1-dev-Controlnet-Union", "safetensors")>>),
      ModelResource("canny", 2, "illu", "controlnet", <<File("controlnet", "noob-sdxl-canny", "safetensors")>>),
      ModelResource("face", 8, "sd15", "ip_adapter", <<File("ipadapter", "ip-adapter-faceid", "bin")>>),
      ModelResource("hyper", 1, "sdxl", "lora", <<File("loras", "Hyper-SDXL-8steps", "safetensors")>>) }

upscale_models ==
    { ModelResource("omnisr_x2", 23, "all", "upscaler", <<File("upscale_models", "OmniSR_X2_DIV2K", "safetensors")>>) }

prefetch_models ==
    { ModelResource("annotator", 24, "all", "preprocessor", <<File("custom_nodes", "table5_pidinet", "pth"),
                                                               File("custom_nodes", "mlsd_large", "pth")>>) }

deprecated_models ==
    { ModelResource("blur", 20, "sd15", "controlnet", <<File("controlnet", "control_lora_blur", "safetensors")>>),
      ModelResource("redux", 21, "flux", "clip_vision", <<File("style_models", "flux1-redux", "safetensors")>>),
      ModelResource("old_upscaler", 25, "all", "upscaler", <<File("upscale_models", "HAT_SRx4", "pth")>>) }

\* Range of a sequence.
Range(s) == { s[i] : i \in 1..Len(s) }

\* Every model of the catalog.
AllModels ==
    required_models \cup Range(default_checkpoints) \cup optional_models
        \cup upscale_models \cup prefetch_models \cup deprecated_models

\* m.id.string, the key the exclusion list is matched against.
IdString(m) == <<m.id.kind, m.id.identifier, m.id.arch>>

\* --------------------------------------------------------------- selection

\* sum([minimal, recommended, all]) of the assertion in main.
PresetCount(a) ==
    (IF a.minimal THEN 1 ELSE 0) + (IF a.recommended THEN 1 ELSE 0) + (IF a.all THEN 1 ELSE 0)

\* Mutant of PresetsValid: two presets pass the assertion.
PresetsValidUpToTwo(a) == PresetCount(a) <= 2

\* The assertion of main: at most one preset.
PresetsValid(a) == PresetCount(a) <= 1

\* Mutant of Versions: the architecture tests form an elif chain, so only the
\* first active architecture is added.
VersionsFirstOnly(a) ==
    {"all"} \cup
        (IF a.sd15 \/ a.minimal \/ a.all THEN {"sd15"}
         ELSE IF a.sdxl \/ a.recommended \/ a.all THEN {"sdxl"}
         ELSE IF a.flux THEN {"flux"}
         ELSE IF a.illu \/ a.all THEN {"illu", "illu_v"}
         ELSE {})

\* versions: the active architecture tags.
Versions(a) ==
    {"all"}
        \cup (IF a.sd15 \/ a.minimal \/ a.all THEN {"sd15"} ELSE {})
        \cup (IF a.sdxl \/ a.recommended \/ a.all THEN {"sdxl"} ELSE {})
        \cup (IF a.flux THEN {"flux"} ELSE {})
        \cup (IF a.illu \/ a.all THEN {"illu", "illu_v"} ELSE {})

\* Mutant of RequiredGuard: the required models are added unconditionally.
RequiredGuardAlways(a) == TRUE

\* The guard under which the required models of the active versions are added.
RequiredGuard(a) == a.minimal \/ a.recommended \/ a.all \/ a.sd15 \/ a.sdxl

\* The kinds the controlnet category covers.
ControlKinds == {"controlnet", "ip_adapter", "clip_vision"}

\* Mutant of MinimalAdds: minimal adds every sd15 checkpoint.
MinimalAddsEverySd15(a) ==
    IF a.minimal THEN { m \in Range(default_checkpoints) : m.arch = "sd15" } ELSE {}

\* if minimal: models.add(default_checkpoints[0])
MinimalAdds(a) == IF a.minimal THEN {default_checkpoints[1]} ELSE {}

\* models before the exclusion list is applied.
Gathered(a) ==
    { m \in Range(default_checkpoints) : a.all \/ m.id.identifier \in a.checkpoints }
        \cup (IF RequiredGuard(a) THEN { m \in required_models : m.arch \in Versions(a) } ELSE {})
        \cup MinimalAdds(a)
        \cup (IF a.recommended THEN { m \in Range(default_checkpoints) : m.arch = "sdxl" } ELSE {})
        \cup (IF a.upscalers \/ a.recommended \/ a.all
                THEN { m \in required_models : m.kind = "upscaler" } \cup upscale_models ELSE {})
        \cup (IF a.controlnet \/ a.recommended \/ a.all
                THEN { m \in optional_models : m.kind \in ControlKinds /\ m.arch \in Versions(a) } ELSE {})
        \cup (IF a.prefetch \/ a.all THEN prefetch_models ELSE {})
        \cup (IF a.deprecated THEN { m \in deprecated_models : m.arch \in Versions(a) } ELSE {})

\* Mutant of Selection: the exclusion list is not applied.
SelectionKeepsExcluded(a) == Gathered(a)

\* models = models - set([m for m in models if m.id.string in exclude])
Selection(a) == { m \in Gathered(a) : IdString(m) \notin a.exclude }

\* -------------------------------------------------------------- file system

\* target_file = destination / file.path
TargetFile(f) == f

\* Mutant of PartFile: the body is written to the target path itself.
PartFileInPlace(f) == f

\* target_file.with_suffix(".part"): the suffix is replaced, not appended.
PartFile(f) == <<f[1], f[2], "part">>

\* target_file.parent
Parent(f) == f[1]

\* Path.exists()
Exists(tree, path) == path \in DOMAIN tree

\* The tree with path holding content (created or overwritten).
WriteFile(tree, path, content) == (path :> content) @@ tree

\* The tree without path.
RemoveFile(tree, path) == [ q \in (DOMAIN tree) \ {path} |-> tree[q] ]

\* Mutant of OpenPart: the file is opened for appending, an existing one keeps
\* its content.
OpenPartAppend(tree, path) == IF Exists(tree, path) THEN tree ELSE WriteFile(tree, path, <<>>)

\* open(path, "wb"): the file is created empty or truncated.
OpenPart(tree, path) == WriteFile(tree, path, <<>>)

\* Path.rename(target): target gets the content, the source path is gone.
Rename(tree, from, to) == RemoveFile(WriteFile(tree, to, tree[from]), from)

\* The content of a file is the sequence of its chunks.  A chunk is <<r, cur>>:
\* the run that wrote it (0: older than these runs) and whether it came from
\* the response that is being received now.
Older == <<0, FALSE>>

\* The tree once the response being received is over: no chunk is current.
Settle(tree) ==
    [ q \in DOMAIN tree |-> [ i \in 1..Len(tree[q]) |-> <<tree[q][i][1], FALSE>> ] ]

\* An empty destination, and one left by earlier use: a checkpoint already in
\* place and a stale temporary file.
EmptyTree == << >>

UsedTree ==
    (File("checkpoints", "flux1-schnell", "safetensors") :> <<Older, Older>>)
        @@ (File("checkpoints", "zavychromaxl", "part") :> <<Older>>)

InitialTrees == {EmptyTree, UsedTree}

\* ------------------------------------------------------------------- state

VARIABLES
    args,        \* the arguments of main
    failPlan,    \* per selected model: how many leading attempts the endpoint fails
    pc,          \* control point of the script
    status,      \* exit status of the process: "running", 0 or 1
    clientOpen,  \* the aiohttp.ClientSession is open
    models,      \* the selection
    queue,       \* sorted(models, key=name)
    idx,         \* position of the for loop of main in queue (0 before the loop)
    attempt,     \* loop variable of download_with_retry
    fileIdx,     \* position of the for loop of download in model.files
    received,    \* chunks of the current response body received so far
    fs,          \* files under the destination: path -> content
    dirs,        \* directories under the destination
    requested,   \* files requested in this run
    committed,   \* files renamed to their target in this run, in order
    attempts,    \* per model: calls of download in this run
    outcome,     \* per model: how download_with_retry ended in this run
    run,         \* number of the current invocation
    interrupted, \* this run was ended by an interrupt
    lastError    \* the exception download raised last in this run

vars ==
    <<args, failPlan, pc, status, clientOpen, models, queue, idx, attempt, fileIdx,
      received, fs, dirs, requested, committed, attempts, outcome, run, interrupted,
      lastError>>

\* The model download_with_retry is working on.
model == queue[idx]

\* The file download is working on.
file == model.files[fileIdx]

\* A chunk of the response download is receiving.
Chunk == <<run, TRUE>>

\* Mutant of Found: the existence check is left out.
FoundNever(tree, f) == FALSE

\* Mutant of Found: the exists test only counts on the first attempt.
FoundOnFirstAttempt(tree, f) == attempt = 0 /\ Exists(tree, TargetFile(f))

\* target_file.exists() as download asks it of a file.
Found(tree, f) == Exists(tree, TargetFile(f))

\* Some file of m is not at its target path.
Missing(tree, m) == \E i \in 1..Len(m.files) : ~Exists(tree, TargetFile(m.files[i]))

\* Every file of m is at its target path.
AllFilesExist(tree, m) == ~Missing(tree, m)

\* Mutant of SortedByName: the models are sorted by descending name.
RECURSIVE SortedByNameDescending(_)
SortedByNameDescending(S) ==
    IF S = {} THEN << >>
    ELSE LET first == CHOOSE x \in S : \A y \in S : x.name >= y.name
         IN  <<first>> \o SortedByNameDescending(S \ {first})

\* sorted(S, key=lambda m: m.name); the names of the catalog are distinct.
RECURSIVE SortedByName(_)
SortedByName(S) ==
    IF S = {} THEN << >>
    ELSE LET first == CHOOSE x \in S : \A y \in S : x.name <= y.name
         IN  <<first>> \o SortedByName(S \ {first})

\* ------------------------------------------------------------------ inputs

NoFlags ==
    [sd15 |-> FALSE, sdxl |-> FALSE, flux |-> FALSE, illu |-> FALSE, upscalers |-> FALSE,
     checkpoints |-> {}, controlnet |-> FALSE, prefetch |-> FALSE, deprecated |-> FALSE,
     minimal |-> FALSE, recommended |-> FALSE, all |-> FALSE, exclude |-> {},
     dry_run |-> FALSE, retry_attempts |-> 5, continue_on_error |-> FALSE]

\* The flag combinations the runs are started with.
RunFlags ==
    { NoFlags,
      [NoFlags EXCEPT !.minimal = TRUE, !.recommended = TRUE],
      [NoFlags EXCEPT !.checkpoints = {"zavychroma", "flux_schnell"}],
      [NoFlags EXCEPT !.checkpoints = {"zavychroma", "flux_schnell"},
                      !.exclude = {<<"checkpoint", "flux_schnell", "flux">>}] }

RunArgs ==
    { [f EXCEPT !.dry_run = d, !.retry_attempts = n, !.continue_on_error = c] :
        f \in RunFlags, d \in BOOLEAN, n \in 0..MaxRetry, c \in BOOLEAN }

\* What the endpoints can do to a run of main(a) on tree: for each selected
\* model, the number of leading attempts that fail (a.retry_attempts: all of
\* them).  An attempt can only fail at a file it requests.
Plans(a, tree) ==
    LET able == IF PresetsValid(a) /\ ~a.dry_run
                  THEN { m \in Selection(a) : Missing(tree, m) } ELSE {}
    IN  { [m \in Selection(a) |-> IF m \in able THEN q[m] ELSE 0] :
            q \in [able -> 0..a.retry_attempts] }

\* The directories of a tree.
DirsOf(tree) == { Parent(q) : q \in DOMAIN tree }

Init ==
    /\ args \in RunArgs
    /\ fs \in InitialTrees
    /\ dirs = DirsOf(fs)
    /\ failPlan \in Plans(args, fs)
    /\ pc = "start"
    /\ status = "running"
    /\ clientOpen = FALSE
    /\ models = {}
    /\ queue = << >>
    /\ idx = 0
    /\ attempt = 0
    /\ fileIdx = 0
    /\ received = 0
    /\ requested = {}
    /\ committed = << >>
    /\ attempts = << >>
    /\ outcome = << >>
    /\ run = 1
    /\ interrupted = FALSE
    /\ lastError = "none"

\* ------------------------------------------------------------------- main

\* main up to its for loop: the assertion, the client session, the selection.
Main ==
    /\ pc = "start"
    /\ IF ~PresetsValid(args)
         THEN /\ pc' = "exit"
              /\ status' = "failure"
              /\ UNCHANGED <<clientOpen, models, queue, attempts, outcome>>
         ELSE /\ clientOpen' = TRUE
              /\ models' = Selection(args)
              /\ queue' = SortedByName(models')
              /\ attempts' = [m \in models' |-> 0]
              /\ outcome' = [m \in models' |-> "none"]
              /\ pc' = "loop"
              /\ UNCHANGED status
    /\ UNCHANGED <<args, failPlan, idx, attempt, fileIdx, received, fs, dirs,
                   requested, committed, run, interrupted, lastError>>

\* The for loop of main takes the next model and calls download_with_retry.
NextModel ==
    /\ pc = "loop"
    /\ idx < Len(queue)
    /\ idx' = idx + 1
    /\ attempt' = 0
    /\ pc' = "retry"
    /\ UNCHANGED <<args, failPlan, status, clientOpen, models, queue, fileIdx, received,
                   fs, dirs, requested, committed, attempts, outcome, run, interrupted, lastError>>

\* The for loop of main is over: the session is closed and main returns.
Finish ==
    /\ pc = "loop"
    /\ idx = Len(queue)
    /\ pc' = "exit"
    /\ status' = "success"
    /\ clientOpen' = FALSE
    /\ UNCHANGED <<args, failPlan, models, queue, idx, attempt, fileIdx, received,
                   fs, dirs, requested, committed, attempts, outcome, run, interrupted, lastError>>

\* ----------------------------------------------------- download_with_retry

\* Mutant of Raise: main swallows the exception and goes on with its loop.
RaiseSwallowed ==
    /\ pc' = "loop"
    /\ outcome' = [outcome EXCEPT ![model] = "raised"]
    /\ attempt' = 0
    /\ fileIdx' = 0
    /\ received' = 0
    /\ UNCHANGED <<status, clientOpen>>

\* An exception leaves download_with_retry and main: the batch halts.
Raise ==
    /\ pc' = "exit"
    /\ status' = "failure"
    /\ clientOpen' = FALSE
    /\ outcome' = [outcome EXCEPT ![model] = "raised"]
    /\ UNCHANGED <<attempt, fileIdx, received>>

\* download_with_retry returns to the for loop of main.
Return(how) ==
    /\ pc' = "loop"
    /\ outcome' = [outcome EXCEPT ![model] = how]
    /\ attempt' = 0
    /\ fileIdx' = 0
    /\ received' = 0
    /\ UNCHANGED <<status, clientOpen>>

\* for attempt in range(retry_attempts): the body is entered, download is called.
StartAttempt ==
    /\ pc = "retry"
    /\ attempt < args.retry_attempts
    /\ attempts' = [attempts EXCEPT ![model] = @ + 1]
    /\ fileIdx' = 1
    /\ received' = 0
    /\ pc' = "file"
    /\ UNCHANGED <<args, failPlan, status, clientOpen, models, queue, idx, attempt, fs, dirs,
                   requested, committed, outcome, run, interrupted, lastError>>

\* Mutant of Exhausted: the else clause never raises.
ExhaustedReturns ==
    /\ pc = "retry"
    /\ attempt >= args.retry_attempts
    /\ Return("skipped")
    /\ UNCHANGED <<args, failPlan, models, queue, idx, fs, dirs, requested, committed, attempts,
                   run, interrupted, lastError>>

\* The else clause of the for loop: the attempts are used up.
Exhausted ==
    /\ pc = "retry"
    /\ attempt >= args.retry_attempts
    /\ IF ~args.continue_on_error THEN Raise ELSE Return("skipped")
    /\ UNCHANGED <<args, failPlan, models, queue, idx, fs, dirs, requested, committed, attempts,
                   run, interrupted, lastError>>

\* Mutant of Except: the handler re-raises whatever continue_on_error is.
ExceptAlwaysRaise(err) ==
    /\ lastError' = err
    /\ Raise

\* except Exception as e: print, and re-raise unless continue_on_error.
Except(err) ==
    /\ lastError' = err
    /\ IF ~args.continue_on_error
         THEN Raise
         ELSE /\ attempt' = attempt + 1
              /\ pc' = "retry"
              /\ fileIdx' = 0
              /\ received' = 0
              /\ UNCHANGED <<status, clientOpen, outcome>>

\* ---------------------------------------------------------------- download

\* The endpoint fails the current attempt.
MayFail == attempt < failPlan[model]

\* The endpoint lets the current file through: the attempt is to succeed, or
\* a later file of the model is still to be requested.
MaySucceed ==
    \/ ~MayFail
    \/ \E j \in (fileIdx + 1)..Len(model.files) : ~Exists(fs, TargetFile(model.files[j]))

\* if target_file.exists(): continue
SkipExisting ==
    /\ pc = "file"
    /\ fileIdx <= Len(model.files)
    /\ Found(fs, file)
    /\ fileIdx' = fileIdx + 1
    /\ UNCHANGED <<args, failPlan, pc, status, clientOpen, models, queue, idx, attempt,
                   received, fs, dirs, requested, committed, attempts, outcome, run,
                   interrupted, lastError>>

\* Mutant of DryRunFile: the dry_run test is missing from the request.
DryRunFileRequests ==
    /\ pc = "file"
    /\ fileIdx <= Len(model.files)
    /\ ~Found(fs, file)
    /\ args.dry_run
    /\ dirs' = dirs \cup {Parent(TargetFile(file))}
    /\ requested' = requested \cup {file}
    /\ fileIdx' = fileIdx + 1
    /\ UNCHANGED <<args, failPlan, pc, status, clientOpen, models, queue, idx, attempt,
                   received, fs, committed, attempts, outcome, run,
                   interrupted, lastError>>

\* Dry run: the parent directory is made and the file is left alone.
DryRunFile ==
    /\ pc = "file"
    /\ fileIdx <= Len(model.files)
    /\ ~Found(fs, file)
    /\ args.dry_run
    /\ dirs' = dirs \cup {Parent(TargetFile(file))}
    /\ fileIdx' = fileIdx + 1
    /\ UNCHANGED <<args, failPlan, pc, status, clientOpen, models, queue, idx, attempt,
                   received, fs, requested, committed, attempts, outcome, run,
                   interrupted, lastError>>

\* The parent directory is made and client.get(url) is issued.
Request ==
    /\ pc = "file"
    /\ fileIdx <= Len(model.files)
    /\ ~Found(fs, file)
    /\ ~args.dry_run
    /\ dirs' = dirs \cup {Parent(TargetFile(file))}
    /\ requested' = requested \cup {file}
    /\ received' = 0
    /\ fs' = Settle(fs)
    /\ pc' = "get"
    /\ UNCHANGED <<args, failPlan, status, clientOpen, models, queue, idx, attempt, fileIdx,
                   committed, attempts, outcome, run, interrupted, lastError>>

\* client.get raises: no response arrives.
ConnectFail ==
    /\ pc = "get"
    /\ MayFail
    /\ Except("connect")
    /\ UNCHANGED <<args, failPlan, models, queue, idx, fs, dirs, requested, committed, attempts,
                   run, interrupted>>

\* resp.raise_for_status() raises: the status is not a success.
BadStatus ==
    /\ pc = "get"
    /\ MayFail
    /\ Except("status")
    /\ UNCHANGED <<args, failPlan, models, queue, idx, fs, dirs, requested, committed, attempts,
                   run, interrupted>>

\* The status is a success: the temporary file is opened for writing.
OpenResponse ==
    /\ pc = "get"
    /\ fs' = OpenPart(fs, PartFile(TargetFile(file)))
    /\ pc' = "stream"
    /\ UNCHANGED <<args, failPlan, status, clientOpen, models, queue, idx, attempt, fileIdx,
                   received, dirs, requested, committed, attempts, outcome, run,
                   interrupted, lastError>>

\* fd.write(chunk): one more chunk of the body is in the temporary file.
WriteChunk ==
    /\ pc = "stream"
    /\ received < NChunks
    /\ fs' = [fs EXCEPT ![PartFile(TargetFile(file))] = Append(@, Chunk)]
    /\ received' = received + 1
    /\ UNCHANGED <<args, failPlan, pc, status, clientOpen, models, queue, idx, attempt,
                   fileIdx, dirs, requested, committed, attempts, outcome, run,
                   interrupted, lastError>>

\* iter_chunks raises in the middle of the body.
StreamFail ==
    /\ pc = "stream"
    /\ MayFail
    /\ Except("stream")
    /\ UNCHANGED <<args, failPlan, models, queue, idx, fs, dirs, requested, committed, attempts,
                   run, interrupted>>

\* The body is complete: the temporary file is renamed to the target.
Commit ==
    /\ pc = "stream"
    /\ received = NChunks
    /\ MaySucceed
    /\ fs' = Settle(Rename(fs, PartFile(TargetFile(file)), TargetFile(file)))
    /\ committed' = Append(committed, file)
    /\ fileIdx' = fileIdx + 1
    /\ received' = 0
    /\ pc' = "file"
    /\ UNCHANGED <<args, failPlan, status, clientOpen, models, queue, idx, attempt,
                   dirs, requested, attempts, outcome, run, interrupted, lastError>>

\* Mutant of DownloadDone: the break is missing, the retry loop goes on after
\* download has returned.
DownloadDoneNoBreak ==
    /\ pc = "file"
    /\ fileIdx > Len(model.files)
    /\ attempt' = attempt + 1
    /\ pc' = "retry"
    /\ UNCHANGED <<args, failPlan, status, clientOpen, models, queue, idx, fileIdx, received,
                   fs, dirs, requested, committed, attempts, outcome, run, interrupted,
                   lastError>>

\* The for loop of download is over: download returns, the retry loop breaks.
DownloadDone ==
    /\ pc = "file"
    /\ fileIdx > Len(model.files)
    /\ Return("ok")
    /\ UNCHANGED <<args, failPlan, models, queue, idx, fs, dirs, requested, committed, attempts,
                   run, interrupted, lastError>>

\* ----------------------------------------------------------------- process

\* KeyboardInterrupt / cancellation: not an Exception, so no handler of the
\* script catches it and the process ends wherever it is.
Interrupt ==
    /\ pc \in {"loop", "retry", "file", "get", "stream"}
    /\ pc' = "exit"
    /\ status' = "failure"
    /\ interrupted' = TRUE
    /\ clientOpen' = FALSE
    /\ UNCHANGED <<args, failPlan, models, queue, idx, attempt, fileIdx, received, fs, dirs,
                   requested, committed, attempts, outcome, run, lastError>>

\* The script is started again with the same arguments and destination.
Rerun ==
    /\ pc = "exit"
    /\ run < MaxRuns
    /\ run' = run + 1
    /\ failPlan' \in { p \in Plans(args, fs) : \A m \in DOMAIN p : p[m] \in {0, failPlan[m]} }
    /\ pc' = "start"
    /\ status' = "running"
    /\ clientOpen' = FALSE
    /\ models' = {}
    /\ queue' = << >>
    /\ idx' = 0
    /\ attempt' = 0
    /\ fileIdx' = 0
    /\ received' = 0
    /\ requested' = {}
    /\ committed' = << >>
    /\ attempts' = << >>
    /\ outcome' = << >>
    /\ interrupted' = FALSE
    /\ lastError' = "none"
    /\ fs' = Settle(fs)
    /\ UNCHANGED <<args, dirs>>

Next ==
    \/ Main
    \/ NextModel
    \/ Finish
    \/ StartAttempt
    \/ Exhausted
    \/ SkipExisting
    \/ DryRunFile
    \/ Request
    \/ ConnectFail
    \/ BadStatus
    \/ OpenResponse
    \/ WriteChunk
    \/ StreamFail
    \/ Commit
    \/ DownloadDone
    \/ Interrupt
    \/ Rerun

Spec == Init /\ [][Next]_vars

\* -------------------------------------------------- selection on its own

\* Every combination of the selection flags, with some checkpoint lists and
\* exclusion lists.
SelArgs ==
    { [NoFlags EXCEPT !.sd15 = b[1], !.sdxl = b[2], !.flux = b[3], !.illu = b[4],
                      !.upscalers = b[5], !.controlnet = b[6], !.prefetch = b[7],
                      !.deprecated = b[8], !.minimal = b[9], !.recommended = b[10],
                      !.all = b[11], !.checkpoints = c, !.exclude = x] :
        b \in [1..11 -> BOOLEAN],
        c \in {{}, {"dreamshaper"}, {"zavychroma", "flux_schnell"}},
        x \in SUBSET {<<"checkpoint", "realistic_vision", "sd15">>, <<"controlnet", "inpaint", "sd15">>} }

SelInit ==
    /\ args \in SelArgs
    /\ fs = EmptyTree
    /\ dirs = {}
    /\ failPlan = [m \in Selection(args) |-> 0]
    /\ pc = "start"
    /\ status = "running"
    /\ clientOpen = FALSE
    /\ models = {}
    /\ queue = << >>
    /\ idx = 0
    /\ attempt = 0
    /\ fileIdx = 0
    /\ received = 0
    /\ requested = {}
    /\ committed = << >>
    /\ attempts = << >>
    /\ outcome = << >>
    /\ run = 1
    /\ interrupted = FALSE
    /\ lastError = "none"

SelNext == Main

SelSpec == SelInit /\ [][SelNext]_vars

\* ------------------------------------------------------------------ claims

\* download_with_retry has ended for m in this run (returned or raised).
Ended(m) == outcome[m] # "none"

\* C1: a model whose download fails on its first N-1 attempts and succeeds on
\* the N-th is, with retry_attempts = N, attempted N times and then returned
\* from successfully with all its files in place, whatever continue_on_error is.
C1_RetrySucceedsOnNth ==
    \A m \in DOMAIN outcome :
        ( /\ Ended(m)
          /\ ~args.dry_run
          /\ args.retry_attempts >= 1
          /\ failPlan[m] = args.retry_attempts - 1 )
        => ( /\ outcome[m] = "ok"
             /\ attempts[m] = args.retry_attempts
             /\ AllFilesExist(fs, m) )

\* C2: download_with_retry gives up on a model only after exactly
\* retry_attempts attempts, raising if continue_on_error is off and returning
\* if it is on.
C2_GiveUpAfterAllAttempts ==
    \A m \in DOMAIN outcome :
        outcome[m] \in {"raised", "skipped"}
        => ( /\ attempts[m] = args.retry_attempts
             /\ (outcome[m] = "raised") <=> ~args.continue_on_error )

\* The paths that are no temporary files.
TargetPaths(tree) == { q \in DOMAIN tree : q[3] # "part" }

\* C3: a step of the script creates or changes a file at a target path only
\* by renaming a temporary file that holds the whole body of the response to
\* the request just made for that path, chunks of no other response among
\* them; a target never disappears.
C3_AtomicCommit ==
    [][ /\ TargetPaths(fs) \subseteq TargetPaths(fs')
        /\ \A q \in TargetPaths(fs') :
             (q \notin DOMAIN fs \/ fs'[q] # fs[q])
             => ( /\ pc = "stream"
                  /\ received = NChunks
                  /\ q = TargetFile(file)
                  /\ q \notin DOMAIN fs
                  /\ PartFile(q) \in DOMAIN fs
                  /\ PartFile(q) \notin DOMAIN fs'
                  /\ fs[PartFile(q)] = [i \in 1..NChunks |-> Chunk]
                  /\ fs'[q] = [i \in 1..NChunks |-> <<run, FALSE>>] ) ]_vars

\* C3 witness: a body broke off in mid-stream; the bytes received are in the
\* temporary file and nothing is at the target.
C3_Witness ==
    /\ lastError = "stream"
    /\ pc = "retry"
    /\ \E f \in requested :
         /\ ~Exists(fs, TargetFile(f))
         /\ Exists(fs, PartFile(TargetFile(f)))
         /\ Len(fs[PartFile(TargetFile(f))]) \in 1..(NChunks - 1)

\* C4: download issues a request only for a file whose target path does not
\* exist, and no step changes or removes a file that is at its target path.
C4_NoRequestForExisting ==
    [][ /\ (pc = "file" /\ pc' = "get") => ~Exists(fs, TargetFile(file))
        /\ \A q \in TargetPaths(fs) : q \in DOMAIN fs' /\ fs'[q] = fs[q] ]_vars

\* C4 witness: a second run stands behind a file the first run committed and
\* has not requested it.
C4_Witness ==
    /\ run = 2
    /\ pc = "file"
    /\ fileIdx = 2
    /\ Exists(fs, TargetFile(model.files[1]))
    /\ \A i \in 1..NChunks : fs[TargetFile(model.files[1])][i][1] = 1
    /\ model.files[1] \notin requested

\* C5: when download_with_retry has returned normally with dry_run and
\* continue_on_error off, every file of the model is at its target path.
C5_FetchPostcondition ==
    \A m \in DOMAIN outcome :
        (outcome[m] \in {"ok", "skipped"} /\ ~args.dry_run /\ ~args.continue_on_error)
        => AllFilesExist(fs, m)

\* C5 witness: a two-file model was returned from normally after both of its
\* files were requested.
C5_Witness ==
    \E m \in DOMAIN outcome :
        /\ outcome[m] = "ok"
        /\ ~args.dry_run /\ ~args.continue_on_error
        /\ Len(m.files) = 2
        /\ Range(m.files) \subseteq requested

\* The steps the script takes by itself.
ScriptStep ==
    \/ Main \/ NextModel \/ Finish \/ StartAttempt \/ Exhausted \/ SkipExisting
    \/ DryRunFile \/ Request \/ ConnectFail \/ BadStatus \/ OpenResponse \/ WriteChunk
    \/ StreamFail \/ Commit \/ DownloadDone

\* C6: with continue_on_error on, download_with_retry never raises, the
\* script is never stuck before its exit, and a run that is not interrupted
\* ends with success status after attempting every selected model at least
\* once (for retry_attempts >= 1), whatever failed.
C6_ContinueOnError ==
    args.continue_on_error =>
        /\ \A m \in DOMAIN outcome : outcome[m] # "raised"
        /\ pc # "exit" => ENABLED ScriptStep
        /\ (pc = "exit" /\ ~interrupted /\ PresetsValid(args))
           => ( /\ status = "success"
                /\ models = Selection(args)
                /\ DOMAIN attempts = models
                /\ args.retry_attempts >= 1 => \A m \in models : attempts[m] >= 1 )

\* C6 witness: the first of two models failed on each of its attempts and was
\* skipped, the second was downloaded, and the run ended with success.
C6_Witness ==
    /\ args.continue_on_error
    /\ pc = "exit"
    /\ status = "success"
    /\ Len(queue) = 2
    /\ args.retry_attempts >= 2
    /\ outcome[queue[1]] = "skipped"
    /\ attempts[queue[1]] = args.retry_attempts
    /\ outcome[queue[2]] = "ok"
    /\ Range(queue[2].files) \subseteq requested

\* Nothing of m was attempted, requested or written in this run.
Untouched(m) ==
    /\ attempts[m] = 0
    /\ outcome[m] = "none"
    /\ Range(m.files) \cap requested = {}
    /\ \A i \in 1..Len(m.files) :
         \A q \in {TargetFile(m.files[i]), PartFile(TargetFile(m.files[i]))} :
             q \in DOMAIN fs => \A k \in 1..Len(fs[q]) : fs[q][k][1] # run

\* C7: with continue_on_error off, once download_with_retry has raised for a
\* model the run is over with failure status, and no model later in name
\* order was attempted, requested or written.
C7_HaltOnFailure ==
    (~args.continue_on_error /\ \E m \in DOMAIN outcome : outcome[m] = "raised")
    => ( /\ pc = "exit"
         /\ status = "failure"
         /\ ~clientOpen
         /\ outcome[model] = "raised"
         /\ \A j \in (idx + 1)..Len(queue) : Untouched(queue[j]) )

\* C7 witness: the first of two models failed with a non-success status and
\* the run is over.
C7_Witness ==
    /\ ~args.continue_on_error
    /\ Len(queue) = 2
    /\ idx = 1
    /\ outcome[queue[1]] = "raised"
    /\ lastError = "status"
    /\ Missing(fs, queue[2])

\* `all` as the only flag, with the exclusion list of a.
AllOnly(a) == [NoFlags EXCEPT !.all = TRUE, !.exclude = a.exclude]

\* C8: the selection of any valid flag combination without `all` is a subset
\* of the selection of `all` alone under the same exclusion list.
C8_AllIsSuperset ==
    (pc = "loop" /\ ~args.all) => models \subseteq Selection(AllOnly(args))

\* The workload flags and the architecture tags each stands for.
WorkloadTags ==
    [sd15 |-> {"sd15"}, sdxl |-> {"sdxl"}, flux |-> {"flux"}, illu |-> {"illu", "illu_v"}]

\* The arguments with the workload flag w as the only flag.
OnlyWorkload(w) ==
    [NoFlags EXCEPT !.sd15 = (w = "sd15"), !.sdxl = (w = "sdxl"),
                    !.flux = (w = "flux"), !.illu = (w = "illu")]

\* C9: with one workload flag as the only flag, the selection holds every
\* required model tagged with the workload's architecture or with 'all'.
C9_WorkloadSelectsRequired ==
    \A w \in DOMAIN WorkloadTags :
        (pc = "loop" /\ args = OnlyWorkload(w))
        => \A m \in required_models :
               m.arch \in WorkloadTags[w] \cup {"all"} => m \in models

\* `minimal` as the only flag, and `sd15` as the only flag.
OnlyMinimal == [NoFlags EXCEPT !.minimal = TRUE]

\* C10: with `minimal` as the only flag the selection holds
\* default_checkpoints[0], no other default checkpoint, and apart from it just
\* the selection of `sd15` alone: the required models tagged sd15 or 'all'.
C10_MinimalSelection ==
    (pc = "loop" /\ args = OnlyMinimal)
    => ( /\ default_checkpoints[1] \in models
         /\ models \cap Range(default_checkpoints) = {default_checkpoints[1]}
         /\ models \ {default_checkpoints[1]} = Selection(OnlyWorkload("sd15"))
         /\ Selection(OnlyWorkload("sd15")) = { m \in required_models : m.arch \in {"sd15", "all"} } )

\* C10 witness: main has computed the selection for `minimal` alone, and there
\* is a second sd15 checkpoint it left out.
C10_Witness ==
    /\ pc = "loop"
    /\ args = OnlyMinimal
    /\ default_checkpoints[1] \in models
    /\ \E i \in 2..Len(default_checkpoints) :
         default_checkpoints[i].arch = "sd15" /\ default_checkpoints[i] \notin models

\* The models of the catalog the exclusion list names.
ExcludedModels == { m \in AllModels : IdString(m) \in args.exclude }

\* The arguments with one more selection flag or preset switched on.
FlagVariants(a) ==
    { a, [a EXCEPT !.sd15 = TRUE], [a EXCEPT !.sdxl = TRUE], [a EXCEPT !.flux = TRUE],
      [a EXCEPT !.illu = TRUE], [a EXCEPT !.upscalers = TRUE], [a EXCEPT !.controlnet = TRUE],
      [a EXCEPT !.prefetch = TRUE], [a EXCEPT !.deprecated = TRUE], [a EXCEPT !.minimal = TRUE],
      [a EXCEPT !.recommended = TRUE], [a EXCEPT !.all = TRUE] }

\* The current run has written a chunk to path q.
WrittenThisRun(q) == q \in DOMAIN fs /\ \E k \in 1..Len(fs[q]) : fs[q][k][1] = run

\* C11: no model whose id string is in the exclusion list is in the selection,
\* whatever the flags, and no file of such a model is looked up, requested or
\* written by the run.
C11_ExcludedNeverSelected ==
    /\ \A m \in models \cup Range(queue) \cup DOMAIN attempts : IdString(m) \notin args.exclude
    /\ pc = "start" =>
         \A a \in FlagVariants(args) : \A m \in Selection(a) : IdString(m) \notin args.exclude
    /\ \A m \in ExcludedModels : \A i \in 1..Len(m.files) :
         /\ m.files[i] \notin requested
         /\ m.files[i] \notin Range(committed)
         /\ (pc \in {"file", "get", "stream"} /\ fileIdx <= Len(model.files)) => file # m.files[i]
         /\ ~WrittenThisRun(TargetFile(m.files[i]))
         /\ ~WrittenThisRun(PartFile(TargetFile(m.files[i])))

\* C11 witness: a checkpoint asked for by name and excluded, with its file
\* missing, was left out of a run that ended after downloading another model.
C11_Witness ==
    /\ pc = "exit"
    /\ status = "success"
    /\ committed # << >>
    /\ \E m \in ExcludedModels :
         /\ m \in Gathered(args)
         /\ m \notin models
         /\ Missing(fs, m)

\* C12: with more than one of minimal, recommended and all, main fails on its
\* assertion before any network activity: no client session is opened, no
\* model is selected or attempted, no request is made, no directory or file
\* is created, and the run ends with a failure status.
C12_PresetsMutuallyExclusive ==
    PresetCount(args) > 1 =>
        /\ pc \in {"start", "exit"}
        /\ pc = "start" => status = "running"
        /\ pc = "exit" => status = "failure"
        /\ ~clientOpen
        /\ models = {}
        /\ queue = << >>
        /\ requested = {}
        /\ committed = << >>
        /\ fs \in InitialTrees
        /\ dirs = DirsOf(fs)

\* C12 witness: a run with all three presets and further flags has ended.
C12_Witness ==
    /\ PresetCount(args) = 3
    /\ args.sd15 /\ args.controlnet /\ args.checkpoints # {}
    /\ pc = "exit"
    /\ status = "failure"

\* The models main selects with the arguments of the run (none when the
\* assertion fails).
Selected == IF PresetsValid(args) THEN Selection(args) ELSE {}

\* The parent directories of the selected files that are not at their target
\* path.
MissingParents ==
    UNION { { Parent(TargetFile(m.files[i])) :
                i \in { k \in 1..Len(m.files) : ~Found(fs, m.files[k]) } } : m \in Selected }

\* No request is issued, no file is created or changed at a target or
\* temporary path, and no directory is made other than the parents of the
\* selected files that do not exist.
DryRunFrame ==
    /\ requested = {}
    /\ committed = << >>
    /\ fs \in InitialTrees
    /\ pc \notin {"get", "stream"}
    /\ lastError = "none"
    /\ dirs \subseteq DirsOf(fs) \cup MissingParents

\* download_with_retry returns from its first attempt for every model, so the
\* script does not end the run with a failure, and a run that went through
\* has made the parent of every selected file that does not exist.
DryRunOutcome ==
    /\ \A m \in DOMAIN outcome : Ended(m) => (outcome[m] = "ok" /\ attempts[m] = 1)
    /\ (pc = "exit" /\ ~interrupted /\ PresetsValid(args)) =>
         (status = "success" /\ \A m \in models : Ended(m))
    /\ (pc = "exit" /\ status = "success") => dirs = DirsOf(fs) \cup MissingParents

\* C13 (as stated): in dry-run mode, for every selection and destination, no
\* request is issued and no file is created at a target or temporary path; the
\* only effect is that the parent of every selected file that does not exist
\* is created, and download_with_retry succeeds on its first attempt for
\* every model.
C13_DryRunAnyAttempts == args.dry_run => (DryRunFrame /\ DryRunOutcome)

\* C13 (amended): the same, for a run that allows at least one attempt
\* (retry_attempts >= 1).
C13_DryRunNoTransfer ==
    (args.dry_run /\ args.retry_attempts >= 1) => (DryRunFrame /\ DryRunOutcome)

\* C13 witness: a dry run over an empty destination went through a two-file
\* model and a one-file model and made their directories, and nothing else.
C13_Witness ==
    /\ args.dry_run
    /\ args.retry_attempts >= 1
    /\ pc = "exit"
    /\ status = "success"
    /\ fs = EmptyTree
    /\ Cardinality(models) = 2
    /\ \E m \in models : Len(m.files) = 2
    /\ dirs = MissingParents
    /\ dirs # {}

\* No architecture, preset or category flag is set and no checkpoint is named.
NoSelectionFlag(a) ==
    /\ ~(a.sd15 \/ a.sdxl \/ a.flux \/ a.illu)
    /\ ~(a.minimal \/ a.recommended \/ a.all)
    /\ ~(a.upscalers \/ a.controlnet \/ a.prefetch \/ a.deprecated)
    /\ a.checkpoints = {}

\* C14: with no selection flag set the selection is empty, no download
\* attempt is made, nothing is created under the destination, and the run,
\* unless it is interrupted from outside, ends with success status.
C14_NoFlagsNothingDone ==
    NoSelectionFlag(args) =>
        /\ Selected = {}
        /\ models = {}
        /\ queue = << >>
        /\ DOMAIN attempts = {}
        /\ pc \in {"start", "loop", "exit"}
        /\ requested = {}
        /\ committed = << >>
        /\ fs \in InitialTrees
        /\ dirs = DirsOf(fs)
        /\ (pc = "exit" /\ ~interrupted) => status = "success"

\* C14 witness: a real (not dry) run without selection flags over a destination
\* that lacks files of the catalog has opened its session and ended.
C14_Witness ==
    /\ NoSelectionFlag(args)
    /\ ~args.dry_run
    /\ args.retry_attempts >= 1
    /\ \E m \in AllModels : Missing(fs, m)
    /\ pc = "exit"
    /\ status = "success"
    /\ ~clientOpen

\* The positions of the loops of main and download: model i of the sorted
\* selection, file k of its files.
Positions == UNION { { <<i, k>> : k \in 1..Len(queue[i].files) } : i \in 1..Len(queue) }

\* The position at which the loops meet file f.
PositionOf(f) == CHOOSE p \in Positions : queue[p[1]].files[p[2]] = f

\* Position p comes before position q.
Before(p, q) == p[1] < q[1] \/ (p[1] = q[1] /\ p[2] < q[2])

\* The paths that hold a chunk of the latest response: the one being received,
\* or the one that was being received when the attempt or the process ended.
InFlight == { q \in DOMAIN fs : \E k \in 1..Len(fs[q]) : fs[q][k][2] }

\* C15: the models are processed one at a time in ascending name order and
\* the files of a model one at a time in catalog order; download_with_retry
\* has ended for every model before the current one, nothing was looked up,
\* requested or written for any model after it, and at most one request and
\* temporary file is in flight.
C15_SequentialInNameOrder ==
    /\ \A i, j \in 1..Len(queue) : i < j => queue[i].name < queue[j].name
    /\ pc # "start" => Range(queue) = models
    /\ idx \in 0..Len(queue)
    /\ pc \in {"retry", "file", "get", "stream"} => (idx >= 1 /\ ~Ended(model))
    /\ \A i \in 1..Len(queue) :
         /\ i < idx => Ended(queue[i])
         /\ i > idx => Untouched(queue[i])
         /\ (i = idx /\ pc = "retry" /\ attempt = 0) => Untouched(queue[i])
    /\ pc \in {"file", "get", "stream"} =>
         /\ fileIdx \in 1..(Len(model.files) + 1)
         /\ \A k \in 1..(fileIdx - 1) : args.dry_run \/ Found(fs, model.files[k])
         /\ \A k \in (fileIdx + 1)..Len(model.files) :
              TargetFile(model.files[k]) \notin InFlight
    /\ pc \in {"get", "stream"} => (fileIdx <= Len(model.files) /\ ~Found(fs, file))
    /\ \A i, j \in 1..Len(committed) :
         i < j => Before(PositionOf(committed[i]), PositionOf(committed[j]))
    /\ \A i \in 1..Len(committed) : PositionOf(committed[i])[1] <= idx
    /\ Cardinality(InFlight) <= 1
    /\ \A q \in InFlight : q[3] = "part"
    /\ pc = "stream" => InFlight \subseteq {PartFile(TargetFile(file))}

\* C15 witness: the second model in name order is receiving its second file
\* after the first model needed a retry and was finished.
C15_Witness ==
    /\ Len(queue) = 2
    /\ idx = 2
    /\ pc = "stream"
    /\ fileIdx = 2
    /\ received >= 1
    /\ attempts[queue[1]] >= 2
    /\ outcome[queue[1]] = "ok"
    /\ Len(committed) = 2

\* The identifiers --checkpoint accepts.
CheckpointNames == { m.id.identifier : m \in Range(default_checkpoints) }

\* The arguments with one more architecture flag, category flag or named
\* checkpoint; presets and exclusion list as they are.
OneMoreFlag(a) ==
    { [a EXCEPT !.sd15 = TRUE], [a EXCEPT !.sdxl = TRUE], [a EXCEPT !.flux = TRUE],
      [a EXCEPT !.illu = TRUE], [a EXCEPT !.upscalers = TRUE], [a EXCEPT !.controlnet = TRUE],
      [a EXCEPT !.prefetch = TRUE], [a EXCEPT !.deprecated = TRUE] }
    \cup { [a EXCEPT !.checkpoints = @ \cup {c}] : c \in CheckpointNames }

\* C16: for a fixed preset choice and exclusion list, turning on one more
\* architecture flag, category flag or named checkpoint removes no model from
\* the selection main has made and raises no error.
C16_SelectionMonotone ==
    /\ \A a \in OneMoreFlag(args) : PresetsValid(a) = PresetsValid(args)
    /\ pc = "loop" =>
         \A a \in OneMoreFlag(args) : PresetsValid(a) /\ models \subseteq Selection(a)

\* C16 witness: main has made a non-empty selection under a preset and an
\* exclusion list, and one more flag both keeps it and adds a model to it.
C16_Witness ==
    /\ pc = "loop"
    /\ args.recommended
    /\ args.flux
    /\ args.exclude # {}
    /\ models # {}
    /\ \E a \in OneMoreFlag(args) : models \subseteq Selection(a) /\ models # Selection(a)

\* The body of one response as a run r has committed it: all its chunks, and
\* nothing else.
WholeBody(r) == [ i \in 1..NChunks |-> <<r, FALSE>> ]

\* C17: no resume.  While a response is received the temporary file holds
\* the chunks of that response only, whatever an earlier attempt or run left
\* in it; a file at a target path is one that was there before the runs or
\* holds exactly the body received by the one attempt that renamed it, and so
\* does every file this run has committed.
C17_NoResume ==
    /\ pc = "stream" =>
         /\ Exists(fs, PartFile(TargetFile(file)))
         /\ fs[PartFile(TargetFile(file))] = [ i \in 1..received |-> Chunk ]
    /\ \A q \in TargetPaths(fs) :
         \/ q \in DOMAIN UsedTree /\ fs[q] = UsedTree[q]
         \/ \E r \in 1..run : fs[q] = WholeBody(r)
    /\ \A i \in 1..Len(committed) :
         /\ Exists(fs, TargetFile(committed[i]))
         /\ fs[TargetFile(committed[i])] = WholeBody(run)

\* C17 witness: a destination that held a stale temporary file of a two-file
\* model, whose download then failed in mid-stream and was retried, has both
\* files of the model committed with one whole body each.
C17_Witness ==
    /\ \E q \in TargetPaths(fs) \cap DOMAIN UsedTree : fs[q] = UsedTree[q]
    /\ lastError = "stream"
    /\ \E m \in models :
         /\ Len(m.files) = 2
         /\ PartFile(TargetFile(m.files[1])) \in DOMAIN UsedTree
         /\ attempts[m] >= 2
         /\ outcome[m] = "ok"
         /\ Range(m.files) \subseteq Range(committed)
         /\ \A k \in 1..2 : fs[TargetFile(m.files[k])] = WholeBody(run)

\* C18: for every model and every failure pattern download_with_retry makes
\* at most retry_attempts attempts and none after the first attempt that
\* succeeds: the attempts never exceed the failing attempts by more than one,
\* a model returned from with success was attempted exactly that often, and
\* no attempt is under way for a model download_with_retry has ended for.
C18_AttemptBound ==
    /\ \A m \in DOMAIN attempts :
         /\ attempts[m] <= args.retry_attempts
         /\ attempts[m] <= failPlan[m] + 1
         /\ outcome[m] = "ok" => attempts[m] = failPlan[m] + 1
         /\ Ended(m) => ~(pc \in {"retry", "file", "get", "stream"} /\ model = m)
    /\ pc \in {"retry", "file", "get", "stream"} =>
         /\ attempt <= args.retry_attempts
         /\ attempts[model] = attempt + (IF pc = "retry" THEN 0 ELSE 1)

\* C18 witness: in one run a model succeeded on its first attempt with an
\* attempt to spare, another on its second attempt after a failure, and the
\* run went on to the end without attempting either again.
C18_Witness ==
    /\ pc = "exit"
    /\ status = "success"
    /\ args.retry_attempts = 2
    /\ \E m \in DOMAIN attempts :
         /\ failPlan[m] = 0
         /\ attempts[m] = 1
         /\ outcome[m] = "ok"
         /\ Range(m.files) \subseteq Range(committed)
    /\ \E m \in DOMAIN attempts :
         /\ failPlan[m] = 1
         /\ attempts[m] = 2
         /\ outcome[m] = "ok"

\* C19: progress is kept across the retries of a model.  A file the run has
\* committed stays at its target path, the run commits no file twice, and a
\* request is only ever under way for a file that is not at its target path
\* and was not committed by the run, so a later attempt skips what an earlier
\* one committed and requests the missing files only.
C19_ProgressKeptAcrossRetries ==
    /\ \A i, j \in 1..Len(committed) : i # j => committed[i] # committed[j]
    /\ \A i \in 1..Len(committed) :
         /\ Exists(fs, TargetFile(committed[i]))
         /\ committed[i] \in requested
    /\ pc \in {"get", "stream"} =>
         /\ file \notin Range(committed)
         /\ ~Found(fs, file)
    /\ (pc = "file" /\ fileIdx <= Len(model.files) /\ file \in Range(committed)) =>
         (Found(fs, file) /\ ~ENABLED Request)

\* C19 witness: the first file of a two-file model was committed in an
\* attempt that then failed on the second file; the retry has skipped the
\* first file and requests the second one.
C19_Witness ==
    /\ pc = "get"
    /\ attempt >= 1
    /\ lastError # "none"
    /\ Len(model.files) = 2
    /\ fileIdx = 2
    /\ committed = <<model.files[1]>>
    /\ Found(fs, model.files[1])

====
